---- MODULE Spec2Model ----
(***************************************************************************)
(* Model of the skyorm postgres provider (postgres.go): the condition      *)
(* compiler (parseCond, parseRegularCond, parseCondChildren), the          *)
(* statement builders (buildWhere, buildUpdateProps, buildQueryProperties, *)
(* buildInsertPlaceholders), the primary-key emptiness test (isPkEmpty)    *)
(* and the provider operations that issue statements.                      *)
(*                                                                         *)
(* A Go string is modelled as the sequence of the string pieces the code   *)
(* concatenates (literals, names, decimal digits); the empty string is     *)
(* <<>>.  A Go interface{} value is a record [t, s, n]: its dynamic type,  *)
(* its text when it is a string and its number when it is numeric.         *)
(***************************************************************************)
EXTENDS Integers, Sequences, FiniteSets, TLC

VARIABLES
    emptyInterfaceSlice,  \* the package-level value slice (postgres.go:164)
    pc,                   \* position of the sequential caller
    call,                 \* operation in progress and its arguments
    out,                  \* result of a direct parseCond call
    stmts,                \* statements handed to the database by the call
    ret,                  \* how the call ended
    putIdx,               \* Put: index of the record the loop is at
    isSerial,             \* Put: result of isPkEmpty for the current record
    answers,              \* Put: the database's answer to each statement
    table,                \* rows the database has stored
    pkDest,               \* Put: keys scanned into the records' OrmPkPointer
    cpc,                  \* concurrent callers: position of each
    ccall,                \* concurrent callers: operation and arguments of each
    cells,                \* memory holding the placeholder counters (the *int targets)
    cleaves,              \* concurrent callers: leaf results compiled so far
    cstmt                 \* concurrent callers: statement each handed to the database

seqVars == <<pc, call, out, stmts, ret, putIdx, isSerial, answers, table, pkDest>>
concVars == <<cpc, ccall, cells, cleaves, cstmt>>
vars == <<emptyInterfaceSlice, seqVars, concVars>>

---------------------------------------------------------------------------
(* Bounds of the explored inputs *)

\* largest number of nodes (combinators, leaves, nil children) of a condition
MaxNodes == 4
\* largest number of nodes of a condition passed to Find, Update, Delete, Count
MaxStmtNodes == 3
\* largest number of assignments passed to Update
MaxAssign == 2
\* number of callers running at the same time
NumCallers == 2
\* largest number of leaves of a condition passed by a concurrent caller
MaxConcLeaves == 2

---------------------------------------------------------------------------
(* Values, conditions, stores *)

Str(x) == [t |-> "string", s |-> x, n |-> 0]
Num(ty, k) == [t |-> ty, s |-> "", n |-> k]
NilVal == [t |-> "nil", s |-> "", n |-> 0]

NilCond == [type |-> "Nil", prop |-> "", val |-> NilVal, children |-> <<>>]
Leaf(ty, p, v) == [type |-> ty, prop |-> p, val |-> v, children |-> <<>>]
Comb(ty, ch) == [type |-> ty, prop |-> "", val |-> NilVal, children |-> ch]

CombTypes == {"And", "Or"}
SupportedTypes == {"Eq", "Neq", "Lt", "Lte", "Gt", "Gte"}

UserProps == <<[name |-> "id", isPk |-> TRUE], [name |-> "name", isPk |-> FALSE],
               [name |-> "age", isPk |-> FALSE]>>
UserStore == [name |-> "users", props |-> UserProps]

---------------------------------------------------------------------------
(* Library functions the code calls *)

Digit == <<"0", "1", "2", "3", "4", "5", "6", "7", "8", "9">>

RECURSIVE Itoa(_)
Itoa(i) ==
    IF i < 0 THEN <<"-">> \o Itoa(-i)
    ELSE IF i < 10 THEN <<Digit[i + 1]>>
    ELSE Itoa(i \div 10) \o <<Digit[(i % 10) + 1]>>

RECURSIVE Join(_, _)
Join(l, sep) ==
    IF Len(l) = 0 THEN <<>>
    ELSE IF Len(l) = 1 THEN l[1]
    ELSE l[1] \o <<sep>> \o Join(Tail(l), sep)

RECURSIVE Sprintf(_, _)
Sprintf(format, a) ==
    IF format = <<>> THEN <<>>
    ELSE IF Head(format) \in {"%s", "%d"}
         THEN IF a = <<>>
              THEN <<"%!(MISSING)">> \o Sprintf(Tail(format), a)
              ELSE Head(a) \o Sprintf(Tail(format), Tail(a))
         ELSE <<Head(format)>> \o Sprintf(Tail(format), a)

---------------------------------------------------------------------------
(* The condition compiler.  A *int is <<>> (nil) or <<k>> (a cell holding  *)
(* k); every function returns the cell it leaves behind as field n.        *)

newN == <<1>>

OpSymbol(ty) ==
    CASE ty = "Eq" -> " = $"
      [] ty = "Neq" -> " <> $"
      [] ty = "Lt" -> " < $"
      [] ty = "Lte" -> " <= $"
      [] ty = "Gt" -> " > $"
      [] ty = "Gte" -> " >= $"

\* variant: the placeholder is rendered from the counter after the increment
parseRegularCondPostIncr(c, n) ==
    LET n1 == n[1] + 1 IN
    IF c.type \in SupportedTypes
    THEN [s |-> <<c.prop, OpSymbol(c.type)>> \o Itoa(n1), v |-> c.val, n |-> <<n1>>]
    ELSE [s |-> <<>>, v |-> NilVal, n |-> <<n1>>]

parseRegularCond(c, n) ==
    LET n1 == n[1] + 1 IN
    IF c.type \in SupportedTypes
    THEN [s |-> <<c.prop, OpSymbol(c.type)>> \o Itoa(n1 - 1), v |-> c.val, n |-> <<n1>>]
    ELSE [s |-> <<>>, v |-> NilVal, n |-> <<n1>>]

\* variant: the result of the children is returned without the emptiness test
combResultNoCheck(s, v, sep, n) == [s |-> Join(<<s>>, sep), v |-> v, n |-> n]

\* the tail of parseCond's combinator branch: sl, vl hold the children's result
combResult(s, v, sep, n) ==
    LET sl == <<s>>
        vl == v
    IN IF Len(vl) = 0
       THEN [s |-> <<>>, v |-> vl, n |-> n]
       ELSE [s |-> Join(sl, sep), v |-> vl, n |-> n]

RECURSIVE parseCond(_, _)
RECURSIVE parseCondChildren(_, _, _)
RECURSIVE childLoop(_, _, _, _, _)

parseCond(c, n) ==
    IF c = NilCond THEN [s |-> <<>>, v |-> emptyInterfaceSlice, n |-> n]
    ELSE LET p == IF n = <<>> THEN newN ELSE n IN
         IF c.type \in CombTypes
         THEN LET sep == IF c.type = "Or" THEN " OR " ELSE " AND "
                  r == parseCondChildren(c.children, sep, p)
              IN combResult(r.s, r.v, sep, r.n)
         ELSE LET r == parseRegularCond(c, p)
              IN [s |-> r.s, v |-> <<r.v>>, n |-> r.n]

childLoop(children, i, n, cl, vl) ==
    IF i > Len(children) THEN [cl |-> cl, vl |-> vl, n |-> n]
    ELSE LET r == parseCond(children[i], n)
         IN childLoop(children, i + 1, r.n, Append(cl, r.s), vl \o r.v)

parseCondChildren(children, sep, n) ==
    LET r == childLoop(children, 1, n, <<>>, <<>>)
    IN [s |-> <<"(">> \o Join(r.cl, sep) \o <<")">>, v |-> r.vl, n |-> r.n]

\* the leaves in the order the recursion of parseCond reaches them
RECURSIVE LeavesOf(_)
RECURSIVE LeavesOfAll(_)
LeavesOf(c) ==
    IF c = NilCond THEN <<>>
    ELSE IF c.type \in CombTypes THEN LeavesOfAll(c.children)
    ELSE <<c>>
LeavesOfAll(l) == IF l = <<>> THEN <<>> ELSE LeavesOf(Head(l)) \o LeavesOfAll(Tail(l))

---------------------------------------------------------------------------
(* Statement builders *)

\* buildWhere after its parseCond call returned r
appendWhere(r, query, queryValues) ==
    LET q == IF r.s # <<>> THEN query \o <<" WHERE ", "%s">> ELSE query
        qv == IF r.s # <<>> THEN Append(queryValues, r.s) ELSE queryValues
    IN [query |-> Sprintf(q, qv), args |-> r.v]

buildWhere(condition, query, n, queryValues) ==
    appendWhere(parseCond(condition, n), query, queryValues)

buildUpdateProps(values) ==
    LET ls == [k \in 1..Len(values) |-> <<values[k].prop, " = $">> \o Itoa((k - 1) + 1)]
        lv == [k \in 1..Len(values) |-> values[k].val]
        i == IF Len(values) = 0 THEN 0 ELSE Len(values) - 1
    IN [cursor |-> i + 2, s |-> Join(ls, ", "), v |-> lv]

RECURSIVE propNames(_, _)
propNames(properties, serial) ==
    IF properties = <<>> THEN <<>>
    ELSE IF serial /\ Head(properties).isPk
         THEN propNames(Tail(properties), serial)
         ELSE <<<<Head(properties).name>>>> \o propNames(Tail(properties), serial)

buildQueryProperties(properties, serial) == Join(propNames(properties, serial), ", ")

buildInsertPlaceholders(n) == Join([i \in 1..n |-> <<"$">> \o Itoa(i)], ", ")

---------------------------------------------------------------------------
(* Primary-key emptiness test.  A type assertion on a value of another     *)
(* dynamic type panics; the result is [panic, b].                          *)

Returns(b) == [panic |-> FALSE, b |-> b]
Panics == [panic |-> TRUE, b |-> FALSE]

IntTypes == {"int", "int8", "int16", "int32", "int64"}
UintTypes == {"uint", "uint8", "uint16", "uint32", "uint64"}
FloatTypes == {"float32", "float64"}

\* pk.(ty) == 0
assertZero(pk, ty) == IF pk.t = ty THEN Returns(pk.n = 0) ELSE Panics

isPkEmpty(pk) ==
    CASE pk.t = "string" -> Returns(pk.s = "")
      [] pk.t \in IntTypes -> assertZero(pk, "int64")
      [] pk.t \in UintTypes -> assertZero(pk, "uint64")
      [] pk.t \in FloatTypes -> assertZero(pk, "float64")
      [] OTHER -> Returns(FALSE)

---------------------------------------------------------------------------
(* Record reflection (skyorm.Model), as the provider consumes it *)

RECURSIVE pkIndex(_)
pkIndex(properties) ==
    IF properties = <<>> THEN 1
    ELSE IF Head(properties).isPk THEN 1 ELSE 1 + pkIndex(Tail(properties))

OrmPk(m) == m.vals[pkIndex(m.props)]
OrmPkProp(m) == m.props[pkIndex(m.props)]

---------------------------------------------------------------------------
(* Inputs *)

NoCall ==
    [op |-> "none", cond |-> NilCond, limit |-> 0, offset |-> 0,
     values |-> <<>>, models |-> <<>>, pk |-> NilVal]

ExampleCond ==
    Comb("And", <<Leaf("Eq", "age", Num("int", 30)),
                  Comb("Or", <<Leaf("Eq", "city", Str("NY")),
                               Leaf("Eq", "city", Str("LA"))>>)>>)

\* the conditions are enumerated as lists without repetition
Atoms ==
    << Leaf("Eq", "age", Num("int", 30)), Leaf("Neq", "city", Str("NY")),
       Leaf("Lt", "age", Num("int", 18)), Leaf("Lte", "age", Num("int", 65)),
       Leaf("Gt", "city", Str("LA")), Leaf("Gte", "age", Num("int", 21)),
       Leaf("Like", "city", Str("N%")), NilCond >>
\* every condition of X put in front of every child list of Y
Cross(X, Y) ==
    [i \in 1..(Len(X) * Len(Y)) |->
        <<X[((i - 1) \div Len(Y)) + 1]>> \o Y[((i - 1) % Len(Y)) + 1]]
\* every child list of Y under a combinator of kind ty
Wrap(ty, Y) == [i \in 1..Len(Y) |-> Comb(ty, Y[i])]
RECURSIVE Cat(_, _)
Cat(L, k) == IF k = 0 THEN <<>> ELSE Cat(L, k - 1) \o L[k]
\* T[j]: the conditions of exactly j nodes (a nil child counts as a node);
\* F[j + 1]: the child lists of exactly j nodes in total; both for j < k
RECURSIVE Grow(_, _, _, _)
Grow(k, max, T, F) ==
    IF k > max THEN T
    ELSE LET Tk == (IF k = 1 THEN Atoms ELSE <<>>)
                   \o Wrap("And", F[k]) \o Wrap("Or", F[k])
             T2 == Append(T, Tk)
             Fk == Cat([j \in 1..k |-> Cross(T2[j], F[k - j + 1])], k)
         IN Grow(k + 1, max, T2, Append(F, Fk))
\* the conditions of at most max nodes, and the example of the documentation
Trees(max) ==
    LET T == Grow(1, max, <<>>, << <<  <<>>  >> >>)
        all == Cat(T, max) \o <<ExampleCond>>
    IN {all[i] : i \in 1..Len(all)}

Conds == Trees(MaxNodes)
StmtConds == Trees(MaxStmtNodes)

\* conditions of the concurrent callers: nil, one leaf, nested chains of leaves
RECURSIVE Chain(_)
Chain(k) ==
    IF k = 1 THEN Leaf("Eq", "age", Num("int", 30))
    ELSE Comb("And", <<Leaf("Gt", "city", Str("LA")), Comb("Or", <<Chain(k - 1)>>)>>)
ConcConds == {NilCond} \cup {Chain(k) : k \in 1..MaxConcLeaves}
ConcCalls ==
    {[NoCall EXCEPT !.op = "Delete", !.cond = c] : c \in ConcConds}
    \cup {[NoCall EXCEPT !.op = "Update", !.cond = c,
                         !.values = <<[prop |-> "name", val |-> Str("Bob")]>>] :
             c \in ConcConds}

Limits == {-1, 0, 5}
Offsets == {0, 10}

Assigns == {[prop |-> "name", val |-> Str("Bob")], [prop |-> "age", val |-> Num("int", 31)]}
AssignLists == UNION {[1..m -> Assigns] : m \in 0..MaxAssign}

PkValues ==
    {Str(""), Str("u1")}
    \cup {Num(ty, k) : ty \in IntTypes \cup UintTypes \cup FloatTypes \cup {"bool"}, k \in {0, 7}}
    \cup {NilVal}

PropsPkFirst == UserProps
PropsPkSecond == <<[name |-> "name", isPk |-> FALSE], [name |-> "id", isPk |-> TRUE],
                   [name |-> "age", isPk |-> FALSE]>>

\* a record of store users whose primary key holds pk
Record(props, pk, name) ==
    [store |-> "users", props |-> props,
     vals |-> [k \in 1..Len(props) |->
                 IF props[k].isPk THEN pk
                 ELSE IF props[k].name = "name" THEN Str(name) ELSE Num("int", 30)]]

PutPks == {Str(""), Str("u1"), Num("int64", 0), Num("int64", 7), Num("int", 0), Num("int", 7)}
Records ==
    {Record(props, pk, name) :
        props \in {PropsPkFirst, PropsPkSecond}, pk \in PutPks, name \in {"Ann", "Bob"}}
\* largest number of records passed to one Put
MaxModels == 2
ModelLists == UNION {[1..m -> Records] : m \in 0..MaxModels}

---------------------------------------------------------------------------
(* State machine of one caller *)

NoOut == [s |-> <<>>, v |-> <<>>]
NoStmt == [query |-> <<>>, args |-> <<>>]
Callers == 1..NumCallers

Init ==
    /\ emptyInterfaceSlice = <<>>
    /\ pc = "idle"
    /\ call = NoCall
    /\ out = NoOut
    /\ stmts = <<>>
    /\ ret = "none"
    /\ putIdx = 0
    /\ isSerial = Returns(FALSE)
    /\ answers = <<>>
    /\ table = <<>>
    /\ pkDest = <<>>
    /\ cpc = [p \in Callers |-> "idle"]
    /\ ccall = [p \in Callers |-> NoCall]
    /\ cells = [p \in Callers |-> 0]
    /\ cleaves = [p \in Callers |-> <<>>]
    /\ cstmt = [p \in Callers |-> NoStmt]

\* a direct call of the condition compiler with a nil counter
ParseCond ==
    /\ pc = "idle"
    /\ \E c \in Conds :
         /\ call' = [NoCall EXCEPT !.op = "parseCond", !.cond = c]
         /\ LET r == parseCond(c, <<>>) IN out' = [s |-> r.s, v |-> r.v]
    /\ pc' = "returned"
    /\ ret' = "nil"
    /\ UNCHANGED <<emptyInterfaceSlice, stmts, putIdx, isSerial, answers, table, pkDest, concVars>>

\* a direct call of the emptiness test
IsPkEmpty ==
    /\ pc = "idle"
    /\ \E pk \in PkValues :
         /\ call' = [NoCall EXCEPT !.op = "isPkEmpty", !.pk = pk]
         /\ isSerial' = isPkEmpty(pk)
         /\ ret' = IF isPkEmpty(pk).panic THEN "panic" ELSE "nil"
    /\ pc' = "returned"
    /\ UNCHANGED <<emptyInterfaceSlice, out, stmts, putIdx, answers, table, pkDest, concVars>>

\* one statement handed to the database; the database's answer is the result
Issue(c, query, args) ==
    /\ call' = c
    /\ stmts' = <<[query |-> query, args |-> args]>>
    /\ pc' = "returned"
    /\ ret' = "db"
    /\ UNCHANGED <<emptyInterfaceSlice, out, putIdx, isSerial, answers, table, pkDest, concVars>>

\* variant: LIMIT/OFFSET appended for every limit >= 0
FindQueryFromZero(store, condition, limit, offset) ==
    LET w == buildWhere(condition, <<"SELECT ", "%s", " FROM ", "%s">>, <<>>,
                        <<buildQueryProperties(store.props, FALSE), <<store.name>>>>)
        query == IF limit >= 0
                 THEN w.query \o Sprintf(<<" LIMIT ", "%d", " OFFSET ", "%d">>,
                                         <<Itoa(limit), Itoa(offset)>>)
                 ELSE w.query
    IN [query |-> query, args |-> w.args]

FindQuery(store, condition, limit, offset) ==
    LET w == buildWhere(condition, <<"SELECT ", "%s", " FROM ", "%s">>, <<>>,
                        <<buildQueryProperties(store.props, FALSE), <<store.name>>>>)
        query == IF limit > 0
                 THEN w.query \o Sprintf(<<" LIMIT ", "%d", " OFFSET ", "%d">>,
                                         <<Itoa(limit), Itoa(offset)>>)
                 ELSE w.query
    IN [query |-> query, args |-> w.args]

Find ==
    /\ pc = "idle"
    /\ \E c \in StmtConds, limit \in Limits, offset \in Offsets :
         LET q == FindQuery(UserStore, c, limit, offset)
         IN Issue([NoCall EXCEPT !.op = "Find", !.cond = c, !.limit = limit,
                                 !.offset = offset], q.query, q.args)

UpdateQuery(store, condition, values) ==
    LET u == buildUpdateProps(values)
        w == buildWhere(condition, <<"UPDATE ", "%s", " SET ", "%s">>, <<u.cursor>>,
                        <<<<store.name>>, u.s>>)
    IN [query |-> w.query, args |-> u.v \o w.args]

Update ==
    /\ pc = "idle"
    /\ \E c \in StmtConds, values \in AssignLists :
         LET q == UpdateQuery(UserStore, c, values)
         IN Issue([NoCall EXCEPT !.op = "Update", !.cond = c, !.values = values],
                  q.query, q.args)

DeleteQuery(store, condition) ==
    buildWhere(condition, <<"DELETE FROM ", "%s">>, <<>>, <<<<store.name>>>>)

Delete ==
    /\ pc = "idle"
    /\ \E c \in StmtConds :
         LET q == DeleteQuery(UserStore, c)
         IN Issue([NoCall EXCEPT !.op = "Delete", !.cond = c], q.query, q.args)

CountQuery(store, condition) ==
    buildWhere(condition, <<"SELECT COUNT(", "%s", ") AS cnt FROM ", "%s">>, <<>>,
               <<<<OrmPkProp(store).name>>, <<store.name>>>>)

Count ==
    /\ pc = "idle"
    /\ \E c \in StmtConds :
         LET q == CountQuery(UserStore, c)
         IN Issue([NoCall EXCEPT !.op = "Count", !.cond = c], q.query, q.args)

PopulateQuery(store, pk) ==
    buildWhere(Leaf("Eq", OrmPkProp(store).name, pk), <<"SELECT ", "%s", " FROM ", "%s">>,
               <<>>, <<buildQueryProperties(store.props, FALSE), <<store.name>>>>)

Populate ==
    /\ pc = "idle"
    /\ \E pk \in PkValues :
         LET q == PopulateQuery(UserStore, pk)
         IN Issue([NoCall EXCEPT !.op = "Populate", !.pk = pk], q.query, q.args)

PutQuery(m, serial) ==
    LET vl == IF serial THEN Len(m.vals) - 1 ELSE Len(m.vals)
        query == Sprintf(<<"INSERT INTO ", "%s", " (", "%s", ") VALUES (", "%s",
                           ") RETURNING ", "%s">>,
                         <<<<m.store>>, buildQueryProperties(m.props, serial),
                           buildInsertPlaceholders(vl), <<OrmPkProp(m).name>>>>)
        values == IF serial
                  THEN SelectSeq([i \in 1..Len(m.vals) |-> [i |-> i, v |-> m.vals[i]]],
                                 LAMBDA e : ~m.props[e.i].isPk)
                  ELSE [i \in 1..Len(m.vals) |-> [i |-> i, v |-> m.vals[i]]]
    IN [query |-> query, args |-> [k \in 1..Len(values) |-> values[k].v]]

\* Put is entered: the loop over the records starts
Put ==
    /\ pc = "idle"
    /\ \E models \in ModelLists :
         /\ call' = [NoCall EXCEPT !.op = "Put", !.models = models]
         /\ pkDest' = [k \in 1..Len(models) |-> OrmPk(models[k])]
    /\ pc' = "put"
    /\ putIdx' = 1
    /\ UNCHANGED <<emptyInterfaceSlice, out, stmts, ret, isSerial, answers, table, concVars>>

\* loop body up to QueryRowContext: the INSERT of the current record is issued
PutIssue ==
    /\ pc = "put"
    /\ putIdx <= Len(call.models)
    /\ LET m == call.models[putIdx]
           e == isPkEmpty(OrmPk(m))
       IN /\ isSerial' = e
          /\ IF e.panic
             THEN /\ pc' = "returned"
                  /\ ret' = "panic"
                  /\ stmts' = stmts
             ELSE /\ pc' = "putwait"
                  /\ ret' = ret
                  /\ stmts' = Append(stmts, PutQuery(m, e.b))
    /\ UNCHANGED <<emptyInterfaceSlice, call, out, putIdx, answers, table, pkDest, concVars>>

\* text pieces of an INSERT between two of its literals
Between(q, from, to) ==
    LET a == CHOOSE i \in 1..Len(q) : q[i] = from
        b == CHOOSE i \in 1..Len(q) : q[i] = to
    IN SubSeq(q, a + 1, b - 1)
InsertCols(q) == SelectSeq(Between(q, " (", ") VALUES ("), LAMBDA x : x # ", ")

\* the key the database returns for an INSERT ... RETURNING <pk>: the bound
\* value of the pk column when the statement names it, else a generated one
ReturnedKey(stmt, pk, serial) ==
    LET cols == InsertCols(stmt.query)
        pkcol == stmt.query[Len(stmt.query)]
    IN IF \E i \in 1..Len(cols) : cols[i] = pkcol
       THEN stmt.args[CHOOSE i \in 1..Len(cols) : cols[i] = pkcol]
       ELSE [t |-> pk.t, s |-> IF pk.t = "string" THEN "generated" ELSE "", n |-> 100 + serial]

\* variant: the loop goes on to the next record after a failed statement
PutRowContinue ==
    /\ pc = "putwait"
    /\ \E outcome \in {"rowErr", "scanErr", "ok"} :
         LET stmt == stmts[Len(stmts)]
             key == ReturnedKey(stmt, OrmPk(call.models[putIdx]), Len(table) + 1)
             row == [key |-> key, record |-> putIdx]
         IN /\ answers' = Append(answers, outcome)
            /\ table' = IF outcome = "rowErr" THEN table ELSE Append(table, row)
            /\ pkDest' = IF outcome = "ok" THEN [pkDest EXCEPT ![putIdx] = key] ELSE pkDest
            /\ putIdx' = putIdx + 1
            /\ pc' = "put"
            /\ ret' = ret
    /\ UNCHANGED <<emptyInterfaceSlice, call, out, stmts, isSerial, concVars>>

\* the database answers the INSERT: row.Err(), row.Scan(m.OrmPkPointer())
PutRow ==
    /\ pc = "putwait"
    /\ \E outcome \in {"rowErr", "scanErr", "ok"} :
         LET stmt == stmts[Len(stmts)]
             key == ReturnedKey(stmt, OrmPk(call.models[putIdx]), Len(table) + 1)
             row == [key |-> key, record |-> putIdx]
         IN /\ answers' = Append(answers, outcome)
            /\ table' = IF outcome = "rowErr" THEN table ELSE Append(table, row)
            /\ IF outcome = "ok"
               THEN /\ pkDest' = [pkDest EXCEPT ![putIdx] = key]
                    /\ putIdx' = putIdx + 1
                    /\ pc' = "put"
                    /\ ret' = ret
               ELSE /\ pc' = "returned"
                    /\ ret' = "err"
                    /\ UNCHANGED <<pkDest, putIdx>>
    /\ UNCHANGED <<emptyInterfaceSlice, call, out, stmts, isSerial, concVars>>

\* the loop is over: return nil
PutReturn ==
    /\ pc = "put"
    /\ putIdx > Len(call.models)
    /\ pc' = "returned"
    /\ ret' = "nil"
    /\ UNCHANGED <<emptyInterfaceSlice, call, out, stmts, putIdx, isSerial, answers, table, pkDest, concVars>>

\* the caller takes the result; the next call starts from a fresh scenario
Done ==
    /\ pc = "returned"
    /\ pc' = "idle"
    /\ call' = NoCall
    /\ out' = NoOut
    /\ stmts' = <<>>
    /\ ret' = "none"
    /\ putIdx' = 0
    /\ isSerial' = Returns(FALSE)
    /\ answers' = <<>>
    /\ table' = <<>>
    /\ pkDest' = <<>>
    /\ UNCHANGED <<emptyInterfaceSlice, concVars>>

Next ==
    \/ ParseCond
    \/ IsPkEmpty
    \/ Find
    \/ Update
    \/ Delete
    \/ Count
    \/ Populate
    \/ Put
    \/ PutIssue
    \/ PutRow
    \/ PutReturn
    \/ Done

Spec == Init /\ [][Next]_vars

---------------------------------------------------------------------------
(* Several callers at once.  Each call is split where it touches memory    *)
(* another call could reach: the placeholder counter behind the *int and   *)
(* the package-level slice.  Everything else is local to the call.         *)

\* variant: one counter shared by all calls
counterCellShared(p) == 1

\* the int a call's counter pointer refers to: the cursor local of Update or
\* the fresh int of newN, one per call
counterCell(p) == p

\* parseCond over the leaf results already compiled, in the order of LeavesOf
RECURSIVE assemble(_, _)
RECURSIVE assembleChildren(_, _, _, _, _)
assemble(c, rs) ==
    IF c = NilCond THEN [s |-> <<>>, v |-> emptyInterfaceSlice, rest |-> rs]
    ELSE IF c.type \in CombTypes
         THEN LET sep == IF c.type = "Or" THEN " OR " ELSE " AND "
                  r == assembleChildren(c.children, 1, rs, <<>>, <<>>)
                  x == combResult(<<"(">> \o Join(r.cl, sep) \o <<")">>, r.vl, sep, <<>>)
              IN [s |-> x.s, v |-> x.v, rest |-> r.rest]
         ELSE [s |-> Head(rs).s, v |-> <<Head(rs).v>>, rest |-> Tail(rs)]
assembleChildren(children, i, rs, cl, vl) ==
    IF i > Len(children) THEN [cl |-> cl, vl |-> vl, rest |-> rs]
    ELSE LET r == assemble(children[i], rs)
         IN assembleChildren(children, i + 1, r.rest, Append(cl, r.s), vl \o r.v)

\* a caller enters Delete or Update; the counter is set up
CallStart(p) ==
    /\ cpc[p] = "idle"
    /\ \E c \in ConcCalls :
         /\ ccall' = [ccall EXCEPT ![p] = c]
         /\ cells' = [cells EXCEPT ![counterCell(p)] =
                         IF c.op = "Update" THEN buildUpdateProps(c.values).cursor
                         ELSE IF c.cond = NilCond THEN @
                         ELSE newN[1]]
    /\ cpc' = [cpc EXCEPT ![p] = "compile"]
    /\ UNCHANGED <<emptyInterfaceSlice, seqVars, cleaves, cstmt>>

\* parseRegularCond, first statement: *n++
LeafIncr(p) ==
    /\ cpc[p] = "compile"
    /\ Len(cleaves[p]) < Len(LeavesOf(ccall[p].cond))
    /\ cells' = [cells EXCEPT ![counterCell(p)] = @ + 1]
    /\ cpc' = [cpc EXCEPT ![p] = "render"]
    /\ UNCHANGED <<emptyInterfaceSlice, seqVars, ccall, cleaves, cstmt>>

\* parseRegularCond, the switch: the placeholder is read from *n
LeafRender(p) ==
    /\ cpc[p] = "render"
    /\ LET c == LeavesOf(ccall[p].cond)[Len(cleaves[p]) + 1]
           n == cells[counterCell(p)]
           r == IF c.type \in SupportedTypes
                THEN [s |-> <<c.prop, OpSymbol(c.type)>> \o Itoa(n - 1), v |-> c.val]
                ELSE [s |-> <<>>, v |-> NilVal]
       IN cleaves' = [cleaves EXCEPT ![p] = Append(@, r)]
    /\ cpc' = [cpc EXCEPT ![p] = "compile"]
    /\ UNCHANGED <<emptyInterfaceSlice, seqVars, ccall, cells, cstmt>>

\* the compiler returns; the statement is put together and handed over
CallIssue(p) ==
    /\ cpc[p] = "compile"
    /\ Len(cleaves[p]) = Len(LeavesOf(ccall[p].cond))
    /\ LET c == ccall[p]
           r == assemble(c.cond, cleaves[p])
           u == buildUpdateProps(c.values)
           w == IF c.op = "Update"
                THEN appendWhere(r, <<"UPDATE ", "%s", " SET ", "%s">>,
                                 <<<<UserStore.name>>, u.s>>)
                ELSE appendWhere(r, <<"DELETE FROM ", "%s">>, <<<<UserStore.name>>>>)
       IN cstmt' = [cstmt EXCEPT ![p] =
                      [query |-> w.query,
                       args |-> IF c.op = "Update" THEN u.v \o w.args ELSE w.args]]
    /\ cpc' = [cpc EXCEPT ![p] = "returned"]
    /\ UNCHANGED <<emptyInterfaceSlice, seqVars, ccall, cells, cleaves>>

\* the caller takes the result; its counter is garbage
CallDone(p) ==
    /\ cpc[p] = "returned"
    /\ cpc' = [cpc EXCEPT ![p] = "idle"]
    /\ ccall' = [ccall EXCEPT ![p] = NoCall]
    /\ cells' = [cells EXCEPT ![counterCell(p)] = 0]
    /\ cleaves' = [cleaves EXCEPT ![p] = <<>>]
    /\ cstmt' = [cstmt EXCEPT ![p] = NoStmt]
    /\ UNCHANGED <<emptyInterfaceSlice, seqVars>>

NextConc ==
    \E p \in Callers :
        \/ CallStart(p)
        \/ LeafIncr(p)
        \/ LeafRender(p)
        \/ CallIssue(p)
        \/ CallDone(p)

SpecConc == Init /\ [][NextConc]_vars

---------------------------------------------------------------------------
(* Reading a statement back: what the database sees in the text *)

\* the string a piece sequence stands for
RECURSIVE Text(_)
Text(q) == IF q = <<>> THEN "" ELSE Head(q) \o Text(Tail(q))

DollarPieces == {" = $", " <> $", " < $", " <= $", " > $", " >= $", "$"}
IsDigit(x) == \E d \in 1..Len(Digit) : Digit[d] = x
DigitVal(x) == (CHOOSE d \in 1..Len(Digit) : Digit[d] = x) - 1

\* the decimal number written from position i on
RECURSIVE NumAt(_, _, _)
NumAt(q, i, acc) ==
    IF i <= Len(q) /\ IsDigit(q[i]) THEN NumAt(q, i + 1, acc * 10 + DigitVal(q[i])) ELSE acc
SignedNumAt(q, i) ==
    IF i <= Len(q) /\ q[i] = "-" THEN 0 - NumAt(q, i + 1, 0) ELSE NumAt(q, i, 0)

\* the placeholders of a text in reading order: [prop, num] for "<prop> <op> $<num>"
RECURSIVE PlaceholdersFrom(_, _)
PlaceholdersFrom(q, i) ==
    IF i > Len(q) THEN <<>>
    ELSE IF q[i] \in DollarPieces
         THEN <<[prop |-> IF i > 1 THEN q[i - 1] ELSE "", num |-> NumAt(q, i + 1, 0)]>>
              \o PlaceholdersFrom(q, i + 1)
         ELSE PlaceholdersFrom(q, i + 1)
Placeholders(q) == PlaceholdersFrom(q, 1)
Numbers(q) == [i \in 1..Len(Placeholders(q)) |-> Placeholders(q)[i].num]
Iota(a, b) == [i \in 1..(b - a + 1) |-> a + i - 1]

Has(q, piece) == \E i \in 1..Len(q) : q[i] = piece
IndexOf(q, piece) == CHOOSE i \in 1..Len(q) : q[i] = piece
CountOf(q, piece) == Cardinality({i \in 1..Len(q) : q[i] = piece})

LeafVals(c) == [i \in 1..Len(LeavesOf(c)) |-> LeavesOf(c)[i].val]
HasBadLeaf(c) == \E i \in 1..Len(LeavesOf(c)) : LeavesOf(c)[i].type \notin SupportedTypes
StmtOps == {"Find", "Update", "Delete", "Count"}
Issued == pc = "returned" /\ call.op \in StmtOps

---------------------------------------------------------------------------
(* Condition compiler *)

\* C1: a condition of supported leaves compiled with a nil counter returns one
\* value per leaf, in left-to-right depth-first leaf order, and the i-th leaf
\* is rendered with placeholder $i; the example of the specification compiles
\* to "(age = $1 AND (city = $2 OR city = $3))" with values [30, NY, LA].
C1_LeafOrder ==
    (pc = "returned" /\ call.op = "parseCond" /\ ~HasBadLeaf(call.cond)) =>
        LET L == LeavesOf(call.cond)
            P == Placeholders(out.s)
        IN /\ Len(out.v) = Len(L)
           /\ \A i \in 1..Len(L) : out.v[i] = L[i].val
           /\ Len(P) = Len(L)
           /\ \A i \in 1..Len(L) : P[i].num = i /\ P[i].prop = L[i].prop
           /\ call.cond = ExampleCond =>
                /\ Text(out.s) = "(age = $1 AND (city = $2 OR city = $3))"
                /\ out.v = <<Num("int", 30), Str("NY"), Str("LA")>>

C1_Witness ==
    /\ pc = "returned"
    /\ call.op = "parseCond"
    /\ call.cond = ExampleCond
    /\ Numbers(out.s) = <<1, 2, 3>>

\* C9 (as claimed): a combinator with at least one leaf is rendered as its
\* non-empty child fragments joined by the separator inside one pair of
\* parentheses: no separator stands first, last or next to another separator.
Seps == {" AND ", " OR "}
NoEmptyOperand(q) ==
    \A i \in 1..Len(q) :
        q[i] \in Seps =>
            /\ 1 < i /\ i < Len(q)
            /\ q[i - 1] \notin Seps \cup {"("}
            /\ q[i + 1] \notin Seps \cup {")"}
C9_JoinsNonEmptyOnly ==
    (pc = "returned" /\ call.op = "parseCond" /\ call.cond.type \in CombTypes
       /\ ~HasBadLeaf(call.cond) /\ LeavesOf(call.cond) # <<>>) =>
        /\ Head(out.s) = "(" /\ out.s[Len(out.s)] = ")"
        /\ NoEmptyOperand(out.s)

\* C4: a condition without any leaf compiles to the empty fragment and no
\* values, never to "()"; Find, Delete, Count and Update then issue a statement
\* without WHERE and without condition-bound values.
Leafless(c) == LeavesOf(c) = <<>>
C4_LeaflessIsEmpty ==
    /\ (pc = "returned" /\ call.op = "parseCond" /\ Leafless(call.cond)) =>
          out.s = <<>> /\ out.v = <<>>
    /\ (Issued /\ Leafless(call.cond)) =>
          /\ ~Has(stmts[1].query, " WHERE ")
          /\ ~Has(stmts[1].query, "(") /\ ~Has(stmts[1].query, ")")
          /\ Len(stmts[1].args) = Len(call.values)
          /\ Len(Placeholders(stmts[1].query)) = Len(call.values)

C4_Witness ==
    /\ Issued
    /\ call.op = "Update"
    /\ call.cond = Comb("And", <<NilCond, Comb("Or", <<>>)>>)
    /\ Len(call.values) = 1
    /\ Text(stmts[1].query) = "UPDATE users SET name = $1"

---------------------------------------------------------------------------
(* Statements *)

\* C2 (as claimed): Update with j >= 0 assignments and a condition of k
\* supported leaves binds j+k values, the SET values in call order then the
\* WHERE values in compile order; SET uses $1..$j, WHERE uses $(j+1)..$(j+k).
C2_UpdateNumbering ==
    (Issued /\ call.op = "Update" /\ ~HasBadLeaf(call.cond)) =>
        LET j == Len(call.values)
            k == Len(LeavesOf(call.cond))
            q == stmts[1].query
            a == stmts[1].args
            w == IF Has(q, " WHERE ") THEN IndexOf(q, " WHERE ") ELSE Len(q) + 1
        IN /\ Len(a) = j + k
           /\ \A i \in 1..j : a[i] = call.values[i].val
           /\ \A i \in 1..k : a[j + i] = LeafVals(call.cond)[i]
           /\ Numbers(SubSeq(q, 1, w - 1)) = Iota(1, j)
           /\ Numbers(SubSeq(q, w, Len(q))) = Iota(j + 1, j + k)

\* C3 (as claimed): a condition holding a leaf of an unsupported kind, at the
\* top or nested, is rejected with an error and no statement is issued.
C3_UnsupportedRejected ==
    (Issued /\ HasBadLeaf(call.cond)) => (stmts = <<>> /\ ret = "err")

\* C7: Find appends " LIMIT <limit> OFFSET <offset>" after the WHERE clause
\* exactly when limit > 0, neither keyword otherwise; pagination adds no
\* placeholder and leaves the bound values and their numbering as compiled.
IsNumberPiece(x) == IsDigit(x) \/ x = "-"
C7_Pagination ==
    (Issued /\ call.op = "Find") =>
        LET q == stmts[1].query
            a == stmts[1].args
        IN /\ call.limit <= 0 => ~Has(q, " LIMIT ") /\ ~Has(q, " OFFSET ")
           /\ call.limit > 0 =>
                /\ CountOf(q, " LIMIT ") = 1 /\ CountOf(q, " OFFSET ") = 1
                /\ LET i == IndexOf(q, " LIMIT ")
                       j == IndexOf(q, " OFFSET ")
                   IN /\ i < j
                      /\ Has(q, " WHERE ") => IndexOf(q, " WHERE ") < i
                      /\ SignedNumAt(q, i + 1) = call.limit
                      /\ SignedNumAt(q, j + 1) = call.offset
                      /\ \A x \in (i + 1)..(j - 1) : IsNumberPiece(q[x])
                      /\ j < Len(q)
                      /\ \A x \in (j + 1)..Len(q) : IsNumberPiece(q[x])
           /\ Len(a) = Len(LeavesOf(call.cond))
           /\ ~HasBadLeaf(call.cond) =>
                /\ a = LeafVals(call.cond)
                /\ Numbers(q) = Iota(1, Len(a))

C7_Witness ==
    /\ Issued
    /\ call.op = "Find"
    /\ call.limit = 5 /\ call.offset = 10
    /\ Text(stmts[1].query) = "SELECT id, name, age FROM users WHERE age = $1 LIMIT 5 OFFSET 10"
    /\ stmts[1].args = <<Num("int", 30)>>

---------------------------------------------------------------------------
(* Put *)

InPut == call.op = "Put"
ValOf(m, name) == m.vals[CHOOSE i \in 1..Len(m.props) : m.props[i].name = name]
IsZeroKey(pk) ==
    \/ pk.t = "string" /\ pk.s = ""
    \/ pk.t \in IntTypes \cup UintTypes \cup FloatTypes /\ pk.n = 0

\* the INSERT binds to every column it names the record's value of that column
Aligned(stmt, m) ==
    LET cols == InsertCols(stmt.query)
        q == stmt.query
    IN /\ q[2] = m.store
       /\ Len(cols) = Len(stmt.args)
       /\ Numbers(q) = Iota(1, Len(cols))
       /\ \A i \in 1..Len(cols) :
            /\ \E j \in 1..Len(m.props) : m.props[j].name = cols[i]
            /\ stmt.args[i] = ValOf(m, cols[i])

\* C5 (as claimed): for every record the loop of Put has taken up, an INSERT is
\* issued whose columns, placeholders $1..$n and values correspond position by
\* position; an empty key is left out (n = properties - 1) and the returned key
\* lands in the record, a pre-set key is bound at its column (n = properties).
C5_InsertPerRecord ==
    InPut =>
        \A k \in 1..Len(call.models) :
            (k < putIdx \/ (k = putIdx /\ pc # "put")) =>
                /\ k <= Len(stmts)
                /\ LET m == call.models[k]
                       cols == InsertCols(stmts[k].query)
                       pkname == OrmPkProp(m).name
                   IN /\ Aligned(stmts[k], m)
                      /\ IsZeroKey(OrmPk(m)) =>
                           /\ Len(cols) = Len(m.props) - 1
                           /\ \A i \in 1..Len(cols) : cols[i] # pkname
                           /\ (k <= Len(answers) /\ answers[k] = "ok") =>
                                \E r \in 1..Len(table) :
                                    table[r].record = k /\ pkDest[k] = table[r].key
                      /\ ~IsZeroKey(OrmPk(m)) =>
                           /\ Len(cols) = Len(m.props)
                           /\ cols[pkIndex(m.props)] = pkname
                           /\ stmts[k].args[pkIndex(m.props)] = OrmPk(m)

\* C6: Put issues the INSERTs in argument order, one at a time; a failed
\* statement or scan ends Put with that error and nothing is issued after it;
\* the rows inserted before stay; nil is returned only when every record was
\* inserted.
Stored == SelectSeq([k \in 1..Len(answers) |-> k], LAMBDA k : answers[k] # "rowErr")
C6_PutSequential ==
    InPut =>
        /\ Len(stmts) <= Len(call.models)
        /\ Len(answers) <= Len(stmts) /\ Len(stmts) <= Len(answers) + 1
        /\ \A k \in 1..Len(stmts) : Aligned(stmts[k], call.models[k])
        /\ \A k \in 1..Len(answers) :
             answers[k] # "ok" =>
                k = Len(answers) /\ Len(stmts) = k /\ pc = "returned" /\ ret = "err"
        /\ [r \in 1..Len(table) |-> table[r].record] = Stored
        /\ ret = "err" => answers # <<>> /\ answers[Len(answers)] # "ok"
        /\ ret = "nil" =>
             /\ Len(stmts) = Len(call.models)
             /\ Len(answers) = Len(call.models)
             /\ \A k \in 1..Len(answers) : answers[k] = "ok"
             /\ Len(table) = Len(call.models)

C6_Witness ==
    /\ InPut
    /\ pc = "returned" /\ ret = "err"
    /\ Len(call.models) = 2
    /\ answers = <<"ok", "scanErr">>
    /\ Len(table) = 2

\* C8: calls running at the same time do not interfere: the package-level
\* slice stays as initialised, and every call hands over exactly the statement
\* and values the operation builds when it runs alone.
Alone(c) ==
    IF c.op = "Update"
    THEN UpdateQuery(UserStore, c.cond, c.values)
    ELSE LET d == DeleteQuery(UserStore, c.cond) IN [query |-> d.query, args |-> d.args]
C8_NoInterference ==
    /\ emptyInterfaceSlice = <<>>
    /\ \A p \in Callers : cpc[p] = "returned" => cstmt[p] = Alone(ccall[p])

C8_Witness ==
    /\ cpc[1] = "returned"
    /\ ccall[1].op = "Update"
    /\ Text(cstmt[1].query) = "UPDATE users SET name = $1 WHERE (city > $2 AND (age = $3))"
    /\ cpc[2] = "render"
    /\ Len(cleaves[2]) = 1

\* C10 (as claimed): the emptiness test returns for every key, TRUE exactly
\* for the empty string and for a numeric zero of any supported type.
C10_IsPkEmptyTotal ==
    (pc = "returned" /\ call.op = "isPkEmpty") =>
        /\ ~isSerial.panic
        /\ isSerial.b = IsZeroKey(call.pk)

====
